---- MODULE Spec2Model ----
(***************************************************************************)
(* Model of the HTTP boundary of the WordPress MCP server: the API-key     *)
(* middleware (requireApiKey), the SSE transport map (sseTransports), the  *)
(* GET /sse handler with its 'close' listener and the POST /messages       *)
(* handler.  Node runs handlers on one thread: every action below is the   *)
(* code that runs between two suspension points (an await or an event).    *)
(*                                                                         *)
(* Strings are sequences of one-character strings, so that startsWith and  *)
(* slice are computed; objects (headers, query, process.env) are functions *)
(* whose DOMAIN is the set of keys that are present.                       *)
(***************************************************************************)
EXTENDS Integers, Sequences, FiniteSets, TLC

\* ---- bounds -------------------------------------------------------------
MaxConns == 2      \* GET /sse requests that reach the handler body
MaxReqs == 3

\* the longest comment_ids array of a bulk_moderate_comments call
MaxIds == 3

\* the most calls of getWordPressClient in a behaviour
MaxCalls == 3       \* requests (GET /sse and POST /messages) in a run

\* ---- strings ------------------------------------------------------------
EmptyStr == <<>>
BearerPrefix == <<"B", "e", "a", "r", "e", "r", " ">>
SecretS == <<"S">>
WrongW == <<"W">>

\* String.prototype.startsWith
startsWith(s, p) == Len(s) >= Len(p) /\ SubSeq(s, 1, Len(p)) = p

\* String.prototype.slice(n), n >= 0
slice(s, n) == SubSeq(s, n + 1, Len(s))

\* obj[k] is truthy: the key is present and its string is not empty
Truthy(obj, k) == k \in DOMAIN obj /\ obj[k] # EmptyStr

\* ---- inputs -------------------------------------------------------------
HeaderNames == {"x-api-key", "authorization"}

HeaderValues ==
  {EmptyStr, SecretS, WrongW, BearerPrefix, BearerPrefix \o SecretS,
   BearerPrefix \o WrongW, <<"B", "e", "a", "r", "e", "r">> \o SecretS}

\* the header objects a request can carry
Headers == UNION {[D -> HeaderValues] : D \in SUBSET HeaderNames}

\* the header objects the route specifications draw from: a route depends
\* on the headers only through the verdict of requireApiKey, and these
\* produce each verdict (SpecGate runs the middleware on all of Headers)
RouteHeaders ==
  {h \in Headers : DOMAIN h \subseteq {"x-api-key"}
                     /\ \A k \in DOMAIN h : h[k] \in {SecretS, WrongW}}

\* process.env as far as the server reads it: API_KEY unset, empty or set
Envs == UNION {[D -> {EmptyStr, SecretS}] : D \in SUBSET {"API_KEY"}}

\* the id SSEServerTransport mints for the k-th transport (an opaque,
\* non-empty string)
SessionId(k) == <<k>>

\* sessionId values a client can put in the query of POST /messages
QueryIds == {EmptyStr} \cup {SessionId(k) : k \in 1..(MaxConns + 1)}

Queries == UNION {[D -> QueryIds] : D \in SUBSET {"sessionId"}}

\* what transport.handlePostMessage can do with a forwarded request:
\* the status it wrote on res (0: nothing written), whether it threw,
\* whether what it threw is an Error instance, and the text of what it threw
NoOutcome == [sent |-> 0, thrown |-> FALSE, isError |-> FALSE, text |-> ""]

TransportOutcomes ==
  {[sent |-> 202, thrown |-> FALSE, isError |-> FALSE, text |-> ""],
   [sent |-> 400, thrown |-> FALSE, isError |-> FALSE, text |-> ""],
   [sent |-> 500, thrown |-> TRUE, isError |-> TRUE, text |-> "boom"],
   [sent |-> 0, thrown |-> TRUE, isError |-> TRUE, text |-> "boom"],
   [sent |-> 0, thrown |-> TRUE, isError |-> FALSE, text |-> "boom"]}

VARIABLES
  env,            \* process.env (API_KEY)
  sseTransports,  \* Map<string, SSEServerTransport>: session id -> transport
  transports,     \* the SSEServerTransport instances created so far
  reqs,           \* the requests received so far, with their responses
  restCalls,      \* requests whose message reached a tool handler's REST call
  gate,           \* the last run of requireApiKey on its own: headers, verdict
  client,         \* the last operation of a WordPressClient, with its result
  bulk,           \* the last run of the bulk_moderate_comments handler
  tool,           \* the last call of an update or delete tool handler
  wpClient        \* the client cache of getWordPressClient, and its history

\* the state of the tool handlers
toolVars == <<bulk, tool, wpClient>>

vars ==
  <<env, sseTransports, transports, reqs, restCalls, gate, client, toolVars>>

\* ---- Map operations -----------------------------------------------------
\* Map.prototype.set
MapSet(m, k, v) == [x \in DOMAIN m \cup {k} |-> IF x = k THEN v ELSE m[x]]

\* a close listener that releases the transport but keeps the map entry
MapDelete_keeps(m, k) == m

\* Map.prototype.delete
MapDelete(m, k) == [x \in DOMAIN m \ {k} |-> m[x]]

\* Map.prototype.has
MapHas(m, k) == k \in DOMAIN m

\* a lookup that ignores the key and returns the transport stored last
MapGet_latest(m, k) ==
  CHOOSE v \in {m[x] : x \in DOMAIN m} : \A x \in DOMAIN m : m[x] <= v

\* Map.prototype.get, for a key that is present
MapGet(m, k) == m[k]

\* ---- requireApiKey ------------------------------------------------------
\* an extraction that looks at Authorization before X-API-Key
providedKey_authFirst(h) ==
  IF "authorization" \in DOMAIN h /\ startsWith(h["authorization"], BearerPrefix)
  THEN {slice(h["authorization"], 7)}
  ELSE IF Truthy(h, "authorization") THEN {h["authorization"]}
  ELSE IF Truthy(h, "x-api-key") THEN {h["x-api-key"]}
  ELSE {}

\* the candidate key: {} when providedKey stays undefined
providedKey(h) ==
  IF Truthy(h, "x-api-key") THEN {h["x-api-key"]}
  ELSE IF "authorization" \in DOMAIN h /\ startsWith(h["authorization"], BearerPrefix)
       THEN {slice(h["authorization"], 7)}
  ELSE IF Truthy(h, "authorization") THEN {h["authorization"]}
  ELSE {}

\* a comparison of the key lengths instead of the keys
requireApiKey_lengthOnly(e, h) ==
  IF ~Truthy(e, "API_KEY") THEN "next"
  ELSE IF providedKey(h) = {} \/ providedKey(h) = {EmptyStr} THEN "401"
  ELSE IF \A k \in providedKey(h) : Len(k) # Len(e["API_KEY"]) THEN "403"
  ELSE "next"

\* the middleware without its `if (!providedKey)` answer: a missing key is
\* compared with API_KEY like any other
requireApiKey_no401(e, h) ==
  IF ~Truthy(e, "API_KEY") THEN "next"
  ELSE IF providedKey(h) # {e["API_KEY"]} THEN "403"
  ELSE "next"

\* the middleware without its `if (!API_KEY) return next()` shortcut
requireApiKey_alwaysChecks(e, h) ==
  IF providedKey(h) = {} \/ providedKey(h) = {EmptyStr} THEN "401"
  ELSE IF "API_KEY" \notin DOMAIN e \/ providedKey(h) # {e["API_KEY"]}
       THEN "403"
  ELSE "next"

\* "next" when the middleware calls next(), else the status it answers
requireApiKey(e, h) ==
  IF ~Truthy(e, "API_KEY") THEN "next"
  ELSE IF providedKey(h) = {} \/ providedKey(h) = {EmptyStr} THEN "401"
  ELSE IF providedKey(h) # {e["API_KEY"]} THEN "403"
  ELSE "next"

\* the body the middleware answers a rejected request with
GateError(g) == IF g = "401" THEN "Unauthorized" ELSE "Forbidden"

GateStatus(g) == IF g = "401" THEN 401 ELSE 403

\* ---- the REST client: values -----------------------------------------------
\* no client operation has run yet
NoOperation == [op |-> "none"]

LowerCase ==
  <<"a", "b", "c", "d", "e", "f", "g", "h", "i", "j", "k", "l", "m",
    "n", "o", "p", "q", "r", "s", "t", "u", "v", "w", "x", "y", "z">>

UpperCase ==
  <<"A", "B", "C", "D", "E", "F", "G", "H", "I", "J", "K", "L", "M",
    "N", "O", "P", "Q", "R", "S", "T", "U", "V", "W", "X", "Y", "Z">>

Digits == <<"0", "1", "2", "3", "4", "5", "6", "7", "8", "9">>

\* the position of character c in the sequence of characters cs
IndexOf(cs, c) == CHOOSE i \in DOMAIN cs : cs[i] = c

IsIn(cs, c) == \E i \in DOMAIN cs : cs[i] = c

\* the byte Buffer.from gives for an ASCII character
CharCode(c) ==
  IF IsIn(LowerCase, c) THEN 96 + IndexOf(LowerCase, c)
  ELSE IF IsIn(UpperCase, c) THEN 64 + IndexOf(UpperCase, c)
  ELSE IF IsIn(Digits, c) THEN 47 + IndexOf(Digits, c)
  ELSE 58   \* ":"

Bytes(s) == [i \in DOMAIN s |-> CharCode(s[i])]

Base64Alphabet == UpperCase \o LowerCase \o Digits \o <<"+", "/">>

\* Buffer.toString('base64')
RECURSIVE Base64(_)
Base64(b) ==
  IF Len(b) = 0 THEN <<>>
  ELSE IF Len(b) = 1
  THEN <<Base64Alphabet[(b[1] \div 4) + 1],
         Base64Alphabet[(b[1] % 4) * 16 + 1], "=", "=">>
  ELSE IF Len(b) = 2
  THEN <<Base64Alphabet[(b[1] \div 4) + 1],
         Base64Alphabet[(b[1] % 4) * 16 + (b[2] \div 16) + 1],
         Base64Alphabet[(b[2] % 16) * 4 + 1], "=">>
  ELSE <<Base64Alphabet[(b[1] \div 4) + 1],
         Base64Alphabet[(b[1] % 4) * 16 + (b[2] \div 16) + 1],
         Base64Alphabet[(b[2] % 16) * 4 + (b[3] \div 64) + 1],
         Base64Alphabet[(b[3] % 64) + 1]>> \o Base64(SubSeq(b, 4, Len(b)))

\* the username / application password pairs a client is constructed with
Credentials ==
  [username : {<<"a", "d", "m", "i", "n">>, <<"b", "o", "b">>},
   appPassword : {<<"p", "w">>}]

BasicPrefix == <<"B", "a", "s", "i", "c", " ">>

\* WordPressClient.getAuthHeader
getAuthHeader(cred) ==
  BasicPrefix \o Base64(Bytes(cred.username \o <<":">> \o cred.appPassword))

\* { ...a, ...b }
Spread(a, b) ==
  [k \in DOMAIN a \cup DOMAIN b |-> IF k \in DOMAIN b THEN b[k] ELSE a[k]]

\* the headers a caller of request can pass in options.headers; no method
\* of the class passes any
ExtraHeaders ==
  UNION {[D -> {<<"x">>}] : D \in SUBSET {"Authorization", "Content-Type"}}

\* response bodies: the raw text, how JSON.parse takes it ("text": it
\* throws; "null", "scalar", "object": what it returns) and, for an
\* object, its message and code fields
MessageM == <<"bad request">>
CodeC == <<"rest_invalid">>

ObjectBody(o) ==
  [raw |-> <<"{">>
           \o (IF "message" \in DOMAIN o
               THEN <<"message:">> \o o["message"] ELSE <<>>)
           \o (IF "code" \in DOMAIN o THEN <<"code:">> \o o["code"] ELSE <<>>)
           \o <<"}">>,
   kind |-> "object", obj |-> o]

JsonObjects ==
  {o \in UNION {[D -> {EmptyStr, MessageM, CodeC}] :
                  D \in SUBSET {"message", "code"}} :
     /\ "message" \in DOMAIN o => o["message"] \in {EmptyStr, MessageM}
     /\ "code" \in DOMAIN o => o["code"] \in {EmptyStr, CodeC}}

Bodies ==
  {[raw |-> <<"oops">>, kind |-> "text", obj |-> <<>>],
   [raw |-> <<>>, kind |-> "text", obj |-> <<>>],
   [raw |-> <<"null">>, kind |-> "null", obj |-> <<>>],
   [raw |-> <<"7">>, kind |-> "scalar", obj |-> <<>>]}
  \cup {ObjectBody(o) : o \in JsonObjects}

\* a || b for strings that may be undefined: sets of at most one string
JsOr(a, b) == IF a = {} \/ a = {EmptyStr} THEN b ELSE a

\* o[k], undefined when the key is absent
Field(o, k) == IF k \in DOMAIN o THEN {o[k]} ELSE {}

\* an error message that prefers the code field to the message field
ErrorMessage_codeFirst(body) ==
  IF body.kind \in {"text", "null"} THEN body.raw
  ELSE CHOOSE m \in JsOr(JsOr(Field(body.obj, "code"),
                              Field(body.obj, "message")), {body.raw}) : TRUE

\* lines 66-73: errorMessage from the body text
ErrorMessage(body) ==
  IF body.kind \in {"text", "null"} THEN body.raw
  ELSE CHOOSE m \in JsOr(JsOr(Field(body.obj, "message"),
                              Field(body.obj, "code")), {body.raw}) : TRUE

\* `WordPress API error (${response.status}): ${errorMessage}`
ApiError(status, msg) ==
  <<"WordPress API error (", ToString(status), "): ">> \o msg

\* response.ok
Ok(status) == status >= 200 /\ status <= 299

\* the status of a fetch that rejects: no response
NoResponse == 0

Statuses == {200, 201, 400, 403, 500}

\* numbers as parseInt gives them: NaN or an integer
NaN == [nan |-> TRUE, val |-> 0]

Number(n) == [nan |-> FALSE, val |-> n]

\* the values a response can carry in x-wp-total / x-wp-totalpages
TotalValues ==
  {<<"4", "2">>, <<"3">>, <<"0">>, EmptyStr, <<"a", "b", "c">>,
   <<"-", "5">>, <<"7", "x">>}

TotalHeaderNames == {"x-wp-total", "x-wp-totalpages"}

ResponseHeaders == UNION {[D -> TotalValues] : D \in SUBSET TotalHeaderNames}

\* the responses of fetch: a status, a body and headers; NoResponse when
\* fetch rejects
Responses ==
  [status : Statuses, body : Bodies, headers : {<<>>}]
  \cup {[status |-> NoResponse, body |-> b, headers |-> <<>>] :
          b \in {[raw |-> <<>>, kind |-> "text", obj |-> <<>>]}}

ListResponses ==
  {r \in Responses : ~Ok(r.status)}
  \cup [status : {200}, body : {[raw |-> <<"[]">>, kind |-> "scalar", obj |-> <<>>],
                                [raw |-> <<"oops">>, kind |-> "text", obj |-> <<>>]},
        headers : ResponseHeaders]

\* the leading decimal digits of s
RECURSIVE DigitsPrefix(_)
DigitsPrefix(s) ==
  IF s # <<>> /\ IsIn(Digits, Head(s))
  THEN <<Head(s)>> \o DigitsPrefix(Tail(s))
  ELSE <<>>

\* the integer a sequence of decimal digits denotes
RECURSIVE DecimalValue(_)
DecimalValue(d) ==
  IF d = <<>> THEN 0
  ELSE 10 * DecimalValue(SubSeq(d, 1, Len(d) - 1))
         + (IndexOf(Digits, d[Len(d)]) - 1)

RECURSIVE StripLeft(_)
StripLeft(s) == IF s # <<>> /\ Head(s) = " " THEN StripLeft(Tail(s)) ELSE s

\* parseInt(s, 10)
parseInt(s) ==
  LET t == StripLeft(s)
      signed == t # <<>> /\ Head(t) \in {"-", "+"}
      d == DigitsPrefix(IF signed THEN Tail(t) ELSE t)
  IN IF d = <<>> THEN NaN
     ELSE IF signed /\ Head(t) = "-" THEN Number(0 - DecimalValue(d))
     ELSE Number(DecimalValue(d))

\* response.headers.get(k) || '0'
HeaderOrZero(hdrs, k) ==
  IF k \in DOMAIN hdrs /\ hdrs[k] # EmptyStr THEN hdrs[k] ELSE <<"0">>

\* totals that read x-wp-total for both fields
ListTotals_sameHeader(hdrs) ==
  [total |-> parseInt(HeaderOrZero(hdrs, "x-wp-total")),
   totalPages |-> parseInt(HeaderOrZero(hdrs, "x-wp-total"))]

\* lines 110-111
ListTotals(hdrs) ==
  [total |-> parseInt(HeaderOrZero(hdrs, "x-wp-total")),
   totalPages |-> parseInt(HeaderOrZero(hdrs, "x-wp-totalpages"))]

\* ---- the REST client: operations -------------------------------------------
\* headers built from the caller's headers alone when it passes any
FetchHeaders_extrasOnly(cred, extras) ==
  IF DOMAIN extras # {} THEN extras
  ELSE ("Authorization" :> getAuthHeader(cred))
         @@ ("Content-Type" :> <<"application/json">>)

\* lines 54-58 and 86-90: the headers of the fetch call
FetchHeaders(cred, extras) ==
  Spread(("Authorization" :> getAuthHeader(cred))
           @@ ("Content-Type" :> <<"application/json">>), extras)

\* lines 271-273: the headers of the upload's fetch call
UploadHeaders(cred) == ("Authorization" :> getAuthHeader(cred))

NoTotals == [total |-> Number(0), totalPages |-> Number(0)]

Thrown(err, read) ==
  [kind |-> "thrown", error |-> err, data |-> <<>>, totals |-> NoTotals,
   bodyRead |-> read]

Returned(body, totals) ==
  [kind |-> "returned", error |-> <<>>, data |-> body.raw, totals |-> totals,
   bodyRead |-> TRUE]

\* a request that never tests response.ok
RequestResult_noOkCheck(resp) ==
  IF resp.status = NoResponse THEN Thrown(<<"fetch failed">>, FALSE)
  ELSE IF resp.body.kind = "text" THEN Thrown(<<"SyntaxError">>, TRUE)
  ELSE Returned(resp.body, NoTotals)

\* lines 60-77: what request does with the outcome of fetch
RequestResult(resp) ==
  IF resp.status = NoResponse THEN Thrown(<<"fetch failed">>, FALSE)
  ELSE IF ~Ok(resp.status)
  THEN Thrown(ApiError(resp.status, ErrorMessage(resp.body)), TRUE)
  ELSE IF resp.body.kind = "text" THEN Thrown(<<"SyntaxError">>, TRUE)
  ELSE Returned(resp.body, NoTotals)

\* lines 92-113: what requestWithHeaders does with the outcome of fetch
ListResult(resp) ==
  IF resp.status = NoResponse THEN Thrown(<<"fetch failed">>, FALSE)
  ELSE IF ~Ok(resp.status)
  THEN Thrown(ApiError(resp.status, ErrorMessage(resp.body)), TRUE)
  ELSE IF resp.body.kind = "text" THEN Thrown(<<"SyntaxError">>, TRUE)
  ELSE Returned(resp.body, ListTotals(resp.headers))

\* lines 269-282: what uploadMedia does with the outcome of fetch
UploadResult(resp) ==
  IF resp.status = NoResponse THEN Thrown(<<"fetch failed">>, FALSE)
  ELSE IF ~Ok(resp.status)
  THEN Thrown(ApiError(resp.status, resp.body.raw), TRUE)
  ELSE IF resp.body.kind = "text" THEN Thrown(<<"SyntaxError">>, TRUE)
  ELSE Returned(resp.body, NoTotals)

\* the optional text fields of an upload
UploadOptions ==
  UNION {[D -> {EmptyStr, <<"t">>}] : D \in SUBSET {"title", "caption"}}

\* lines 261-267: the form fields, in the order they are appended
FormFields(options) ==
  <<"file">>
  \o (IF Truthy(options, "title") THEN <<"title">> ELSE <<>>)
  \o (IF Truthy(options, "caption") THEN <<"caption">> ELSE <<>>)

\* the response and result of an operation whose fetch has not settled
Pending == [status |-> NoResponse, body |-> <<>>, headers |-> <<>>]

NoResult ==
  [kind |-> "none", error |-> <<>>, data |-> <<>>, totals |-> NoTotals,
   bodyRead |-> FALSE]

\* the record of one operation: its inputs, the fetch calls it made (the
\* headers of each), and once fetch has settled its response and result
Operation(op, cred, extras, calls, form) ==
  [op |-> op, pc |-> "fetching", cred |-> cred, extras |-> extras,
   sent |-> calls, form |-> form, response |-> Pending, result |-> NoResult,
   via |-> "", force |-> {}, query |-> EmptyStr]

\* WordPressClient.request, up to `await fetch(url, ...)`
Request(cred, extras) ==
  /\ client' = Operation("request", cred, extras,
                         <<FetchHeaders(cred, extras)>>, <<>>)
  /\ UNCHANGED <<env, sseTransports, transports, reqs, restCalls, gate, toolVars>>

\* WordPressClient.requestWithHeaders, up to `await fetch(url, ...)`
RequestWithHeaders(cred, extras) ==
  /\ client' = Operation("requestWithHeaders", cred, extras,
                         <<FetchHeaders(cred, extras)>>, <<>>)
  /\ UNCHANGED <<env, sseTransports, transports, reqs, restCalls, gate, toolVars>>

\* WordPressClient.uploadMedia, up to `await fetch(...)`
UploadMedia(cred, options) ==
  /\ client' = Operation("uploadMedia", cred, <<>>,
                         <<UploadHeaders(cred)>>, FormFields(options))
  /\ UNCHANGED <<env, sseTransports, transports, reqs, restCalls, gate, toolVars>>

\* the delete methods that take a force parameter
DeleteMethods == {"deletePost", "deletePage", "deleteComment", "deleteMedia"}

\* the force argument of a call: omitted ({}), or a boolean
ForceArgs == {{}} \cup {{b} : b \in BOOLEAN}

\* every delete method defaulting to false
DefaultForce_allFalse(method) == FALSE

\* the default value of the force parameter
DefaultForce(method) == method = "deleteMedia"

\* the force parameter in the body of the method
Force(method, arg) ==
  IF arg = {} THEN DefaultForce(method) ELSE CHOOSE b \in arg : TRUE

\* the query the method appends to the endpoint
DeleteQuery(method, arg) ==
  IF method = "deleteMedia"
  THEN <<"?", "f", "o", "r", "c", "e", "=">>
         \o (IF Force(method, arg) THEN <<"t", "r", "u", "e">>
             ELSE <<"f", "a", "l", "s", "e">>)
  ELSE IF Force(method, arg)
  THEN <<"?", "f", "o", "r", "c", "e", "=", "t", "r", "u", "e">>
  ELSE EmptyStr

\* deletePost, deletePage, deleteComment, deleteMedia: the query is built
\* and request runs up to `await fetch(url, ...)`
Delete(cred, method, arg) ==
  /\ client' = [Operation("request", cred, <<>>,
                          <<FetchHeaders(cred, <<>>)>>, <<>>)
                  EXCEPT !.via = method, !.force = arg,
                         !.query = DeleteQuery(method, arg)]
  /\ UNCHANGED <<env, sseTransports, transports, reqs, restCalls, gate, toolVars>>

\* the errors fetch itself rejects with (no response was received)
TransportErrors == {<<"fetch failed">>}

\* an executor that makes a second attempt after a failed one
SentAfter_retry(sent, failed) ==
  IF failed THEN Append(sent, sent[1]) ELSE sent

\* the fetch calls of an operation once its fetch has settled: no code
\* after the await calls fetch again
SentAfter(sent, failed) == sent

\* fetch rejects with err: no method catches it, so the operation rejects
\* with the same error
FetchReject(err) ==
  /\ client.op \in {"request", "requestWithHeaders", "uploadMedia"}
  /\ client.pc = "fetching"
  /\ client' = [client EXCEPT
       !.pc = "done",
       !.sent = SentAfter(@, TRUE),
       !.result = Thrown(err, FALSE)]
  /\ UNCHANGED <<env, sseTransports, transports, reqs, restCalls, gate, toolVars>>

\* fetch settles with resp and the operation runs to its end
FetchSettle(resp) ==
  /\ client.op \in {"request", "requestWithHeaders", "uploadMedia"}
  /\ client.pc = "fetching"
  /\ client.op = "requestWithHeaders" => resp \in ListResponses
  /\ client.op # "requestWithHeaders" => resp \in Responses
  /\ client' = [client EXCEPT
       !.pc = "done",
       !.sent = SentAfter(@, ~Ok(resp.status)),
       !.response = resp,
       !.result = IF client.op = "request" THEN RequestResult(resp)
                  ELSE IF client.op = "requestWithHeaders" THEN ListResult(resp)
                  ELSE UploadResult(resp)]
  /\ UNCHANGED <<env, sseTransports, transports, reqs, restCalls, gate, toolVars>>

\* ---- the REST client: buildQueryString -----------------------------------
\* the values of a params object, by typeof / Array.isArray
Value(t, str, b, n, a) == [t |-> t, s |-> str, b |-> b, n |-> n, a |-> a]

Undefined == Value("undefined", <<>>, FALSE, 0, <<>>)

Null == Value("null", <<>>, FALSE, 0, <<>>)

StringValue(str) == Value("string", str, FALSE, 0, <<>>)

BooleanValue(b) == Value("boolean", <<>>, b, 0, <<>>)

NumberValue(n) == Value("number", <<>>, FALSE, n, <<>>)

ArrayValue(a) == Value("array", <<>>, FALSE, 0, a)

ParamKeys == {<<"k">>, <<"p">>}

ParamValues ==
  {Undefined, Null}
    \cup {StringValue(x) : x \in {<<>>, <<"a", " ", "b">>}}
    \cup {BooleanValue(b) : b \in BOOLEAN}
    \cup {NumberValue(n) : n \in {0, 20}}
    \cup {ArrayValue(a) : a \in {<<>>, <<<<"a">>, <<"a">>>>,
                                 <<<<"a">>, <<"b">>, <<"c">>>>}}

\* Object.entries(params): own keys in insertion order, each key once
Params ==
  {e \in UNION {[1..n -> [key : ParamKeys, value : ParamValues]] :
                  n \in 0..Cardinality(ParamKeys)} :
     \A i, j \in DOMAIN e : e[i].key = e[j].key => i = j}

\* Array.prototype.join
RECURSIVE Join(_, _)
Join(a, sep) ==
  IF Len(a) = 0 THEN <<>>
  ELSE IF Len(a) = 1 THEN a[1]
  ELSE a[1] \o sep \o Join(Tail(a), sep)

\* String(n) of a non-negative integer
RECURSIVE ToDecimal(_)
ToDecimal(n) ==
  IF n < 10 THEN <<Digits[n + 1]>>
  ELSE ToDecimal(n \div 10) \o <<Digits[(n % 10) + 1]>>

\* the test of line 119 passing every value
Emitted_all(v) == TRUE

\* `value !== undefined && value !== null`
Emitted(v) == v.t \notin {"undefined", "null"}

\* the string the branches of lines 120-127 pass to searchParams.set
ValueString(v) ==
  IF v.t = "array" THEN Join(v.a, <<",">>)
  ELSE IF v.t = "boolean" THEN (IF v.b THEN <<"t", "r", "u", "e">>
                                ELSE <<"f", "a", "l", "s", "e">>)
  ELSE IF v.t = "number" THEN ToDecimal(v.n)
  ELSE IF v.t = "string" THEN v.s
  ELSE IF v.t = "null" THEN <<"n", "u", "l", "l">>
  ELSE <<"u", "n", "d", "e", "f", "i", "n", "e", "d">>

HexDigits == Digits \o <<"A", "B", "C", "D", "E", "F">>

Unreserved == LowerCase \o UpperCase \o Digits \o <<"*", "-", ".", "_">>

\* application/x-www-form-urlencoded byte serialisation of one character
UrlEncodeChar(c) ==
  IF IsIn(Unreserved, c) THEN <<c>>
  ELSE IF c = " " THEN <<"+">>
  ELSE LET code == IF c = "," THEN 44 ELSE CharCode(c)
       IN <<"%", HexDigits[(code \div 16) + 1], HexDigits[(code % 16) + 1]>>

RECURSIVE UrlEncode(_)
UrlEncode(str) ==
  IF Len(str) = 0 THEN <<>>
  ELSE UrlEncodeChar(Head(str)) \o UrlEncode(Tail(str))

\* the list of URLSearchParams after the loop of lines 118-129: set() on a
\* key not yet in the list appends the pair
RECURSIVE SearchParams(_)
SearchParams(entries) ==
  IF Len(entries) = 0 THEN <<>>
  ELSE (IF Emitted(Head(entries).value)
        THEN <<[name |-> Head(entries).key,
                value |-> ValueString(Head(entries).value)]>>
        ELSE <<>>) \o SearchParams(Tail(entries))

\* URLSearchParams.prototype.toString
RECURSIVE Serialize(_)
Serialize(list) ==
  IF Len(list) = 0 THEN <<>>
  ELSE UrlEncode(Head(list).name) \o <<"=">> \o UrlEncode(Head(list).value)
         \o (IF Len(list) = 1 THEN <<>> ELSE <<"&">> \o Serialize(Tail(list)))

\* WordPressClient.buildQueryString
buildQueryString(params) ==
  LET queryString == Serialize(SearchParams(params))
  IN IF queryString # EmptyStr THEN <<"?">> \o queryString ELSE EmptyStr

\* a call of buildQueryString and the string it returned
BuildQueryString(params) ==
  /\ client' = [op |-> "buildQueryString", pc |-> "done", params |-> params,
                query |-> buildQueryString(params)]
  /\ UNCHANGED <<env, sseTransports, transports, reqs, restCalls, gate, toolVars>>

\* ---- getWordPressClient ---------------------------------------------------
WpEnvNames ==
  {"WORDPRESS_SITE_URL", "WORDPRESS_USERNAME", "WORDPRESS_APP_PASSWORD"}

\* process.env as far as createWordPressClient reads it: each variable
\* unset, empty or set
WpEnvs == UNION {[D -> {EmptyStr, <<"v">>}] : D \in SUBSET WpEnvNames}

ConfiguredEnv == [k \in WpEnvNames |-> <<"v">>]

\* wpClient = null
NullClient == 0

\* createWordPressClient: whether it returns a client, or the error it throws
createWordPressClient(e) ==
  IF ~Truthy(e, "WORDPRESS_SITE_URL")
  THEN [ok |-> FALSE,
        error |-> "WORDPRESS_SITE_URL environment variable is required"]
  ELSE IF ~Truthy(e, "WORDPRESS_USERNAME")
  THEN [ok |-> FALSE,
        error |-> "WORDPRESS_USERNAME environment variable is required"]
  ELSE IF ~Truthy(e, "WORDPRESS_APP_PASSWORD")
  THEN [ok |-> FALSE,
        error |-> "WORDPRESS_APP_PASSWORD environment variable is required"]
  ELSE [ok |-> TRUE, error |-> ""]

\* the cache before any call, in a process with environment e; instances
\* are numbered in the order of their construction; gets counts the calls
\* of getWordPressClient, attempts those of createWordPressClient
NoClient(e) ==
  [env |-> e, cached |-> NullClient, gets |-> 0, constructed |-> 0,
   attempts |-> 0, returned |-> NullClient, error |-> ""]

\* a getter that constructs a client on every call
getWordPressClient_noCache(w) ==
  IF createWordPressClient(w.env).ok
  THEN [w EXCEPT !.gets = @ + 1, !.cached = w.constructed + 1, !.constructed = @ + 1,
                 !.attempts = @ + 1, !.returned = w.constructed + 1,
                 !.error = ""]
  ELSE [w EXCEPT !.gets = @ + 1, !.attempts = @ + 1,
                 !.returned = NullClient,
                 !.error = createWordPressClient(w.env).error]

\* getWordPressClient: the cache after the call, with the instance it
\* returned or the error it threw
getWordPressClient(w) ==
  IF w.cached # NullClient
  THEN [w EXCEPT !.gets = @ + 1, !.returned = w.cached, !.error = ""]
  ELSE IF createWordPressClient(w.env).ok
  THEN [w EXCEPT !.gets = @ + 1, !.cached = w.constructed + 1, !.constructed = @ + 1,
                 !.attempts = @ + 1, !.returned = w.constructed + 1,
                 !.error = ""]
  ELSE [w EXCEPT !.gets = @ + 1, !.attempts = @ + 1,
                 !.returned = NullClient,
                 !.error = createWordPressClient(w.env).error]

\* ---- update tools ---------------------------------------------------------
UpdateTools ==
  {"update_post", "update_page", "update_media", "update_site_settings"}

\* the argument naming the item to update, none for the site settings
IdFields(name) ==
  IF name = "update_post" THEN {"post_id"}
  ELSE IF name = "update_page" THEN {"page_id"}
  ELSE IF name = "update_media" THEN {"media_id"}
  ELSE {}

\* two of the optional fields of each tool
ToolFields(name) ==
  IF name = "update_media" THEN {"title", "caption"}
  ELSE IF name = "update_site_settings" THEN {"title", "description"}
  ELSE {"title", "content"}

\* the parsed arguments of a call: the id, and each optional field absent,
\* undefined or a string
ToolArgs(name) ==
  UNION {[D \cup IdFields(name) ->
            {Undefined, StringValue(EmptyStr), StringValue(<<"x">>),
             NumberValue(1)}] :
           D \in SUBSET ToolFields(name)}

\* the arguments the schema accepts: the id is a number, the fields are not
ValidArgs(name) ==
  {a \in ToolArgs(name) :
     \A k \in DOMAIN a : (a[k] = NumberValue(1)) <=> (k \in IdFields(name))}

\* a filter that keeps undefined values
CleanData_keepsUndefined(name, args) ==
  [k \in DOMAIN args \ IdFields(name) |-> args[k]]

\* const { post_id, ...updateData } = args; Object.fromEntries(
\*   Object.entries(updateData).filter(([, v]) => v !== undefined))
CleanData(name, args) ==
  [k \in {f \in DOMAIN args \ IdFields(name) : args[f] # Undefined}
     |-> args[k]]

NoFieldsText(name) ==
  IF name = "update_site_settings"
  THEN "Error: No settings to update were provided."
  ELSE "Error: No fields to update were provided."

\* the client method each tool calls
ClientMethod(name) ==
  IF name = "update_post" THEN "updatePost"
  ELSE IF name = "update_page" THEN "updatePage"
  ELSE IF name = "update_media" THEN "updateMedia"
  ELSE "updateSettings"

\* no tool call yet
NoTool ==
  [pc |-> "idle", name |-> "", args |-> <<>>, outcome |-> "none",
   text |-> "", calls |-> <<>>]

\* an update tool is called: getClient(), then the check of the fields,
\* then the handler reaches `await client.update...(..., cleanData)`
UpdateTool(name, args) ==
  /\ tool.pc # "awaiting"
  /\ wpClient.gets < MaxCalls
  /\ wpClient' = getWordPressClient(wpClient)
  /\ tool' =
       IF wpClient'.returned = NullClient
       THEN [NoTool EXCEPT !.pc = "done", !.name = name, !.args = args,
                           !.outcome = "thrown", !.text = wpClient'.error]
       ELSE IF DOMAIN CleanData(name, args) = {}
       THEN [NoTool EXCEPT !.pc = "done", !.name = name, !.args = args,
                           !.outcome = "returned",
                           !.text = NoFieldsText(name)]
       ELSE [NoTool EXCEPT !.pc = "awaiting", !.name = name, !.args = args,
                           !.calls = <<[method |-> ClientMethod(name),
                                        client |-> wpClient'.returned,
                                        data |-> CleanData(name, args)]>>]
  /\ UNCHANGED <<env, sseTransports, transports, reqs, restCalls, gate,
                 client, bulk>>

\* the pending update ends with o: the handler returns its text, or the
\* rejection leaves the handler
UpdateToolSettle(o) ==
  /\ tool.pc = "awaiting"
  /\ tool' = IF o.ok
             THEN [tool EXCEPT !.pc = "done", !.outcome = "returned",
                               !.text = "updated successfully"]
             ELSE [tool EXCEPT !.pc = "done", !.outcome = "thrown",
                               !.text = o.message]
  /\ UNCHANGED <<env, sseTransports, transports, reqs, restCalls, gate,
                 client, bulk, wpClient>>

\* ---- bulk_moderate_comments ---------------------------------------------
CommentIds == {1, 2}

\* args.comment_ids: a non-empty array of numbers (the schema's min(1))
IdLists == UNION {[1..n -> CommentIds] : n \in 1..MaxIds}

CommentStatuses == {"approved", "spam"}

\* how one `await client.updateComment(...)` ends: it resolves, or it
\* rejects with an Error or with some other value
UpdateOutcomes ==
  {[ok |-> TRUE, isError |-> FALSE, message |-> ""],
   [ok |-> FALSE, isError |-> FALSE, message |-> ""]}
    \cup {[ok |-> FALSE, isError |-> TRUE, message |-> m] :
            m \in {"fetch failed", "WordPress API error (404): Invalid comment ID."}}

NoBulk ==
  [pc |-> "idle", ids |-> <<>>, status |-> "", calls |-> <<>>,
   outcomes |-> <<>>, results |-> <<>>, successful |-> 0, failed |-> 0]

\* a handler that starts every update before awaiting any
CallsAtStart_all(ids) == ids

\* the updateComment calls issued before the first await: the first id's
CallsAtStart(ids) == <<ids[1]>>

\* a catch block that records nothing
PushResult_dropFailure(results, id, o) ==
  IF o.ok THEN Append(results, [id |-> id, success |-> TRUE, error |-> ""])
  ELSE results

\* the try / catch of lines 190-199 after the update of id ended with o
PushResult(results, id, o) ==
  IF o.ok THEN Append(results, [id |-> id, success |-> TRUE, error |-> ""])
  ELSE Append(results,
              [id |-> id, success |-> FALSE,
               error |-> IF o.isError THEN o.message ELSE "Unknown error"])

\* results.filter(r => r.success).length
Successful(results) == Cardinality({i \in DOMAIN results : results[i].success})

\* results.filter(r => !r.success).length
Failed(results) == Cardinality({i \in DOMAIN results : ~results[i].success})

\* the handler is called: getClient() returns the client or throws, then
\* the loop reaches its first `await client.updateComment`
BulkModerate(ids, status) ==
  /\ bulk.pc # "running"
  /\ wpClient.gets < MaxCalls
  /\ wpClient' = getWordPressClient(wpClient)
  /\ bulk' = IF wpClient'.returned # NullClient
             THEN [NoBulk EXCEPT !.pc = "running", !.ids = ids,
                                 !.status = status,
                                 !.calls = CallsAtStart(ids)]
             ELSE [NoBulk EXCEPT !.pc = "failed", !.ids = ids,
                                 !.status = status]
  /\ UNCHANGED <<env, sseTransports, transports, reqs, restCalls, gate,
                 client, tool>>

\* the pending updateComment ends with o: its result is pushed, and the
\* loop goes on to the next id or the handler returns its text
UpdateCommentSettle(o) ==
  /\ bulk.pc = "running"
  /\ LET id == bulk.ids[Len(bulk.outcomes) + 1]
         results == PushResult(bulk.results, id, o)
         outcomes == Append(bulk.outcomes, o)
     IN bulk' =
          IF Len(outcomes) < Len(bulk.ids)
          THEN [bulk EXCEPT !.outcomes = outcomes, !.results = results,
                            !.calls = Append(@, bulk.ids[Len(outcomes) + 1])]
          ELSE [bulk EXCEPT !.pc = "done", !.outcomes = outcomes,
                            !.results = results,
                            !.successful = Successful(results),
                            !.failed = Failed(results)]
  /\ UNCHANGED <<env, sseTransports, transports, reqs, restCalls, gate,
                 client, tool, wpClient>>

\* ---- request records ----------------------------------------------------
NewReq(path, g) ==
  [path |-> path, gate |-> g, sid |-> EmptyStr, pc |-> "done",
   status |-> 0, error |-> "", message |-> "",
   transport |-> 0, sidGiven |-> FALSE, lookedUp |-> FALSE,
   forwardedTo |-> 0, outcome |-> NoOutcome]

Rejected(path, g) ==
  [NewReq(path, g) EXCEPT !.status = GateStatus(g), !.error = GateError(g)]

Init ==
  /\ env \in Envs
  /\ sseTransports = <<>>
  /\ transports = <<>>
  /\ reqs = <<>>
  /\ restCalls = {}
  /\ gate = [headers |-> <<>>, verdict |-> "none"]
  /\ client = NoOperation
  /\ bulk = NoBulk
  /\ tool = NoTool
  /\ wpClient = NoClient(ConfiguredEnv)

\* ---- GET /sse -----------------------------------------------------------
\* the handler body up to `await server.connect(transport)`; id is the
\* session id the new transport minted
SseBody(id) ==
  LET t == Len(transports) + 1 IN
  /\ transports' = Append(transports,
       [sessionId |-> id, pc |-> "connecting", listening |-> FALSE,
        open |-> TRUE, closed |-> FALSE, closeRuns |-> 0,
        req |-> Len(reqs) + 1])
  /\ sseTransports' = MapSet(sseTransports, id, t)
  /\ reqs' = Append(reqs, [NewReq("/sse", "next") EXCEPT
                             !.sid = id, !.pc = "streaming", !.transport = t])
  /\ UNCHANGED <<env, restCalls, gate, client, toolVars>>

\* the route registered without the requireApiKey middleware
GetSse_ungated(h, id) ==
  /\ Len(reqs) < MaxReqs
  /\ Len(transports) < MaxConns
  /\ transports' = Append(transports,
       [sessionId |-> id, pc |-> "connecting", listening |-> FALSE,
        open |-> TRUE, closed |-> FALSE, closeRuns |-> 0,
        req |-> Len(reqs) + 1])
  /\ sseTransports' = MapSet(sseTransports, id, Len(transports) + 1)
  /\ reqs' = Append(reqs, [NewReq("/sse", requireApiKey(env, h)) EXCEPT
                             !.sid = id, !.pc = "streaming",
                             !.transport = Len(transports) + 1])
  /\ UNCHANGED <<env, restCalls, gate, client, toolVars>>

GetSse(h, id) ==
  /\ Len(reqs) < MaxReqs
  /\ Len(transports) < MaxConns
  /\ IF requireApiKey(env, h) # "next"
     THEN /\ reqs' = Append(reqs, Rejected("/sse", requireApiKey(env, h)))
          /\ UNCHANGED <<env, sseTransports, transports, restCalls, gate, client, toolVars>>
     ELSE SseBody(id)

\* server.connect(transport) resolves: the 'close' listener is attached
ConnectResolve(t) ==
  /\ t \in DOMAIN transports
  /\ transports[t].pc = "connecting"
  /\ transports' = [transports EXCEPT ![t].pc = "connected",
                                      ![t].listening = TRUE]
  /\ UNCHANGED <<env, sseTransports, reqs, restCalls, gate, client, toolVars>>

\* server.connect(transport) rejects: the catch block answers 500 unless
\* the response headers were already sent
ConnectReject(t, headersSent) ==
  /\ t \in DOMAIN transports
  /\ transports[t].pc = "connecting"
  /\ transports' = [transports EXCEPT ![t].pc = "failed"]
  /\ reqs' = [reqs EXCEPT ![transports[t].req] =
       IF headersSent THEN [@ EXCEPT !.pc = "done"]
       ELSE [@ EXCEPT !.pc = "done", !.status = 500,
                      !.error = "SSE connection failed"]]
  /\ UNCHANGED <<env, sseTransports, restCalls, gate, client, toolVars>>

\* the underlying connection closes: req emits 'close' once; the listener
\* of lines 859-862 runs if it is attached by then
Disconnect(t) ==
  /\ t \in DOMAIN transports
  /\ transports[t].open
  /\ IF transports[t].listening
     THEN /\ sseTransports' = MapDelete(sseTransports, transports[t].sessionId)
          /\ transports' = [transports EXCEPT ![t].open = FALSE,
                                              ![t].closed = TRUE,
                                              ![t].closeRuns = @ + 1]
     ELSE /\ transports' = [transports EXCEPT ![t].open = FALSE]
          /\ UNCHANGED sseTransports
  /\ UNCHANGED <<env, reqs, restCalls, gate, client, toolVars>>

\* ---- POST /messages -----------------------------------------------------
\* the handler without its `if (!transport)` check: calling a method of
\* undefined throws, and the catch block answers the generic 500
MessagesBody_noCheck(q) ==
  IF ~Truthy(q, "sessionId")
  THEN /\ reqs' = Append(reqs, [NewReq("/messages", "next") EXCEPT
                      !.sidGiven = "sessionId" \in DOMAIN q,
                      !.status = 400, !.error = "Missing sessionId parameter"])
       /\ UNCHANGED <<env, sseTransports, transports, restCalls, gate, client, toolVars>>
  ELSE IF ~MapHas(sseTransports, q["sessionId"])
  THEN /\ reqs' = Append(reqs, [NewReq("/messages", "next") EXCEPT
                      !.sid = q["sessionId"], !.sidGiven = TRUE,
                      !.lookedUp = TRUE,
                      !.status = 500, !.error = "Message handling failed"])
       /\ UNCHANGED <<env, sseTransports, transports, restCalls, gate, client, toolVars>>
  ELSE /\ reqs' = Append(reqs, [NewReq("/messages", "next") EXCEPT
                      !.sid = q["sessionId"], !.sidGiven = TRUE,
                      !.lookedUp = TRUE, !.pc = "handling",
                      !.forwardedTo = MapGet(sseTransports, q["sessionId"])])
       /\ UNCHANGED <<env, sseTransports, transports, restCalls, gate, client, toolVars>>

\* a handler that looks the session up before testing the parameter
MessagesBody_lookupFirst(q) ==
  IF ~("sessionId" \in DOMAIN q /\ MapHas(sseTransports, q["sessionId"]))
  THEN /\ reqs' = Append(reqs, [NewReq("/messages", "next") EXCEPT
                      !.sidGiven = "sessionId" \in DOMAIN q,
                      !.lookedUp = TRUE,
                      !.status = 404, !.error = "Session not found"])
       /\ UNCHANGED <<env, sseTransports, transports, restCalls, gate, client, toolVars>>
  ELSE /\ reqs' = Append(reqs, [NewReq("/messages", "next") EXCEPT
                      !.sid = q["sessionId"], !.sidGiven = TRUE,
                      !.lookedUp = TRUE, !.pc = "handling",
                      !.forwardedTo = MapGet(sseTransports, q["sessionId"])])
       /\ UNCHANGED <<env, sseTransports, transports, restCalls, gate, client, toolVars>>

\* the handler body up to `await transport.handlePostMessage(req, res)`
MessagesBody(q) ==
  IF ~Truthy(q, "sessionId")
  THEN /\ reqs' = Append(reqs, [NewReq("/messages", "next") EXCEPT
                      !.sidGiven = "sessionId" \in DOMAIN q,
                      !.status = 400, !.error = "Missing sessionId parameter"])
       /\ UNCHANGED <<env, sseTransports, transports, restCalls, gate, client, toolVars>>
  ELSE IF ~MapHas(sseTransports, q["sessionId"])
  THEN /\ reqs' = Append(reqs, [NewReq("/messages", "next") EXCEPT
                      !.sid = q["sessionId"], !.sidGiven = TRUE,
                      !.lookedUp = TRUE,
                      !.status = 404, !.error = "Session not found"])
       /\ UNCHANGED <<env, sseTransports, transports, restCalls, gate, client, toolVars>>
  ELSE /\ reqs' = Append(reqs, [NewReq("/messages", "next") EXCEPT
                      !.sid = q["sessionId"], !.sidGiven = TRUE,
                      !.lookedUp = TRUE, !.pc = "handling",
                      !.forwardedTo = MapGet(sseTransports, q["sessionId"])])
       /\ UNCHANGED <<env, sseTransports, transports, restCalls, gate, client, toolVars>>

PostMessages(h, q) ==
  /\ Len(reqs) < MaxReqs
  /\ IF requireApiKey(env, h) # "next"
     THEN /\ reqs' = Append(reqs, Rejected("/messages", requireApiKey(env, h)))
          /\ UNCHANGED <<env, sseTransports, transports, restCalls, gate, client, toolVars>>
     ELSE MessagesBody(q)

\* a catch block that never reports the error's own message
CatchMessage_generic(o) == "Unknown error"

\* the message of the 500 answer of the catch block
CatchMessage(o) == IF o.isError THEN o.text ELSE "Unknown error"

\* handlePostMessage settles: the transport's own answer stands; a throw
\* is caught and answered 500 only if nothing was sent yet
PostSettle(i, o, toolCall) ==
  /\ i \in DOMAIN reqs
  /\ reqs[i].pc = "handling"
  /\ reqs' = [reqs EXCEPT ![i] =
       IF o.sent # 0
       THEN [@ EXCEPT !.pc = "done", !.outcome = o, !.status = o.sent,
                      !.error = "transport"]
       ELSE [@ EXCEPT !.pc = "done", !.outcome = o, !.status = 500,
                      !.error = "Message handling failed",
                      !.message = CatchMessage(o)]]
  /\ restCalls' = IF o.sent = 202 /\ toolCall THEN restCalls \cup {i}
                  ELSE restCalls
  /\ UNCHANGED <<env, sseTransports, transports, gate, client, toolVars>>

\* ---- the middleware on its own -------------------------------------------
\* requireApiKey runs on a request with headers h
RequireApiKeyRun(h) ==
  /\ gate' = [headers |-> h, verdict |-> requireApiKey(env, h)]
  /\ UNCHANGED <<env, sseTransports, transports, reqs, restCalls, client, toolVars>>

\* ---- specifications -----------------------------------------------------
\* session ids are unique: the k-th transport mints SessionId(k)
Next ==
  \/ \E h \in RouteHeaders : GetSse(h, SessionId(Len(transports) + 1))
  \/ \E t \in 1..MaxConns : ConnectResolve(t)
  \/ \E t \in 1..MaxConns, hs \in BOOLEAN : ConnectReject(t, hs)
  \/ \E t \in 1..MaxConns : Disconnect(t)
  \/ \E h \in RouteHeaders, q \in Queries : PostMessages(h, q)
  \/ \E i \in 1..MaxReqs, o \in TransportOutcomes, tc \in BOOLEAN :
       PostSettle(i, o, tc)

Spec == Init /\ [][Next]_vars

\* a transport may mint an id another transport already minted
NextCollide ==
  \/ \E h \in RouteHeaders, k \in 1..MaxConns : GetSse(h, SessionId(k))
  \/ \E t \in 1..MaxConns : ConnectResolve(t)
  \/ \E t \in 1..MaxConns, hs \in BOOLEAN : ConnectReject(t, hs)
  \/ \E t \in 1..MaxConns : Disconnect(t)
  \/ \E h \in RouteHeaders, q \in Queries : PostMessages(h, q)
  \/ \E i \in 1..MaxReqs, o \in TransportOutcomes, tc \in BOOLEAN :
       PostSettle(i, o, tc)

SpecCollide == Init /\ [][NextCollide]_vars

\* the middleware applied to every header object, in every env
NextGate == \E h \in Headers : RequireApiKeyRun(h)

SpecGate == Init /\ [][NextGate]_vars

\* the operations of the REST client, on every response
NextClient ==
  \/ \E c \in Credentials, x \in ExtraHeaders : Request(c, x)
  \/ \E c \in Credentials, x \in ExtraHeaders : RequestWithHeaders(c, x)
  \/ \E c \in Credentials, o \in UploadOptions : UploadMedia(c, o)
  \/ \E r \in Responses \cup ListResponses : FetchSettle(r)
  \/ \E e \in TransportErrors : FetchReject(e)
  \/ \E c \in Credentials, m \in DeleteMethods, f \in ForceArgs :
       Delete(c, m, f)
  \/ \E p \in Params : BuildQueryString(p)

SpecClient == Init /\ [][NextClient]_vars

\* runs of the bulk_moderate_comments handler, on every outcome of each
\* update
NextBulk ==
  \/ \E ids \in IdLists, st \in CommentStatuses : BulkModerate(ids, st)
  \/ \E o \in UpdateOutcomes : UpdateCommentSettle(o)

SpecBulk == Init /\ [][NextBulk]_vars

\* the process started in any environment
InitTools ==
  /\ env \in Envs
  /\ sseTransports = <<>>
  /\ transports = <<>>
  /\ reqs = <<>>
  /\ restCalls = {}
  /\ gate = [headers |-> <<>>, verdict |-> "none"]
  /\ client = NoOperation
  /\ bulk = NoBulk
  /\ tool = NoTool
  /\ wpClient \in {NoClient(e) : e \in WpEnvs}

\* calls of the update tools, one after the other
NextTools ==
  \/ \E n \in UpdateTools : \E a \in ValidArgs(n) : UpdateTool(n, a)
  \/ \E o \in UpdateOutcomes : UpdateToolSettle(o)

SpecTools == InitTools /\ [][NextTools]_vars

\* ---- helpers of the properties -------------------------------------------
\* the request this step received, if it received one
Received == Len(reqs') = Len(reqs) + 1

NewRec == reqs'[Len(reqs')]

\* the close listener of some transport with session id s has run
CloseRan(s) ==
  \E t \in DOMAIN transports :
    transports[t].sessionId = s /\ transports[t].closeRuns > 0

\* ---- C1 ------------------------------------------------------------------
\* C1: once the close listener of a session id has run, every POST /messages
\* for that id which reaches the route handler is answered 404 'Session not
\* found' and is not forwarded to a transport, wherever the disconnect falls
\* among the message requests for that id.
C1_RouteAfterClose ==
  [][(Received /\ NewRec.path = "/messages" /\ NewRec.gate = "next"
        /\ NewRec.sid # EmptyStr /\ CloseRan(NewRec.sid))
      => (NewRec.status = 404 /\ NewRec.error = "Session not found"
            /\ NewRec.forwardedTo = 0 /\ NewRec.pc = "done")]_vars

\* a message for the id was forwarded while the session was open, and a
\* later one, after the close listener ran, was answered 404
C1_Witness ==
  \E i, j \in DOMAIN reqs :
    /\ i < j
    /\ reqs[i].path = "/messages" /\ reqs[i].forwardedTo # 0
    /\ reqs[j].path = "/messages" /\ reqs[j].sid = reqs[i].sid
    /\ reqs[j].status = 404
    /\ CloseRan(reqs[j].sid)

\* ---- C2 ------------------------------------------------------------------
\* C2: cleanup on disconnect is guaranteed: once the connection of a
\* transport created on /sse has closed and its handler has finished
\* (server.connect settled), the map holds no entry for the session id and
\* transport.close() has been called.
C2_CleanupOnDisconnect ==
  \A t \in DOMAIN transports :
    (~transports[t].open /\ transports[t].pc # "connecting")
      => (~MapHas(sseTransports, transports[t].sessionId)
            /\ transports[t].closed)

\* ---- C3 ------------------------------------------------------------------
\* C3 (as stated): a POST /messages that reaches the route handler with a
\* sessionId that is not a key of the map is answered 404 'Session not
\* found', not the generic 500, and leaves the map unchanged.
C3_UnknownIdIs404 ==
  [][(Received /\ NewRec.path = "/messages" /\ NewRec.gate = "next"
        /\ NewRec.sidGiven /\ ~MapHas(sseTransports, NewRec.sid))
      => (NewRec.status = 404 /\ NewRec.error = "Session not found"
            /\ NewRec.status # 500 /\ NewRec.error # "Message handling failed"
            /\ sseTransports' = sseTransports)]_vars

\* C3 (amended): the same for a sessionId that is not empty; an empty
\* sessionId is answered 400 before the map is consulted.
C3_UnknownNonEmptyIdIs404 ==
  [][(Received /\ NewRec.path = "/messages" /\ NewRec.gate = "next"
        /\ NewRec.sidGiven /\ NewRec.sid # EmptyStr
        /\ ~MapHas(sseTransports, NewRec.sid))
      => (NewRec.status = 404 /\ NewRec.error = "Session not found"
            /\ NewRec.status # 500 /\ NewRec.error # "Message handling failed"
            /\ sseTransports' = sseTransports)]_vars

\* a 404 was given for an id no transport ever minted, while a session is open
C3_Witness ==
  /\ DOMAIN sseTransports # {}
  /\ \E i \in DOMAIN reqs :
       /\ reqs[i].path = "/messages" /\ reqs[i].status = 404
       /\ reqs[i].sid # EmptyStr
       /\ \A t \in DOMAIN transports : transports[t].sessionId # reqs[i].sid

\* ---- C4 ------------------------------------------------------------------
\* C4: open never overwrites: an entry of the map is never replaced by
\* another transport, also when a new transport reports a session id that
\* is already a key.
C4_NoOverwrite ==
  [][\A s \in DOMAIN sseTransports :
       MapHas(sseTransports', s) => sseTransports'[s] = sseTransports[s]]_vars

\* ---- C5 ------------------------------------------------------------------
\* C5: the map sends distinct session ids to distinct transports, and a
\* message posted with session id s is forwarded only to the transport that
\* minted s and was registered by the /sse request that created it.
C5_OneSessionOneTransport ==
  /\ \A s1, s2 \in DOMAIN sseTransports :
       s1 # s2 => sseTransports[s1] # sseTransports[s2]
  /\ \A s \in DOMAIN sseTransports :
       transports[sseTransports[s]].sessionId = s
  /\ \A i \in DOMAIN reqs :
       reqs[i].forwardedTo # 0 =>
         /\ reqs[i].forwardedTo \in DOMAIN transports
         /\ transports[reqs[i].forwardedTo].sessionId = reqs[i].sid
         /\ reqs[transports[reqs[i].forwardedTo].req].transport
              = reqs[i].forwardedTo

\* two sessions are registered at once and a message went to the first
C5_Witness ==
  /\ Cardinality(DOMAIN sseTransports) >= 2
  /\ \E i \in DOMAIN reqs :
       reqs[i].forwardedTo = 1 /\ reqs[i].sid = SessionId(1)

\* ---- C6 ------------------------------------------------------------------
\* C6: no reachable state has a session id in the map whose transport is
\* already released (its connection closed or transport.close() called),
\* so a lookup never yields a half-closed transport.
C6_NoHalfClosedEntry ==
  \A s \in DOMAIN sseTransports :
    /\ transports[sseTransports[s]].open
    /\ ~transports[sseTransports[s]].closed

\* ---- C7 ------------------------------------------------------------------
\* C7 (as stated): a forwarded message gets the transport's answer, and
\* when the transport's handling throws without having answered, the caller
\* receives that failure: the answer carries the text of what was thrown.
C7_FailureUnchanged ==
  \A i \in DOMAIN reqs :
    (reqs[i].forwardedTo # 0 /\ reqs[i].pc = "done") =>
      /\ reqs[i].outcome.sent # 0 => reqs[i].status = reqs[i].outcome.sent
      /\ (reqs[i].outcome.sent = 0 /\ reqs[i].outcome.thrown) =>
           (reqs[i].status = 500 /\ reqs[i].message = reqs[i].outcome.text)

\* C7 (amended): a forwarded message gets the transport's answer when the
\* transport answered (a throw after that is only logged); when the
\* transport throws without having answered, the caller receives 500
\* 'Message handling failed' with the message of the thrown Error, or with
\* 'Unknown error' when what was thrown is not an Error.
C7_RouteResult ==
  \A i \in DOMAIN reqs :
    (reqs[i].forwardedTo # 0 /\ reqs[i].pc = "done") =>
      /\ reqs[i].outcome.sent # 0 => reqs[i].status = reqs[i].outcome.sent
      /\ (reqs[i].outcome.sent = 0 /\ reqs[i].outcome.thrown) =>
           /\ reqs[i].status = 500
           /\ reqs[i].error = "Message handling failed"
           /\ reqs[i].outcome.isError =>
                reqs[i].message = reqs[i].outcome.text
           /\ ~reqs[i].outcome.isError =>
                reqs[i].message = "Unknown error"

\* a forwarded message whose handling threw an Error before any answer
C7_Witness ==
  \E i \in DOMAIN reqs :
    /\ reqs[i].forwardedTo # 0 /\ reqs[i].pc = "done"
    /\ reqs[i].outcome.sent = 0 /\ reqs[i].outcome.thrown
    /\ reqs[i].outcome.isError
    /\ reqs[i].status = 500

\* ---- C8 ------------------------------------------------------------------
\* C8: the close listener runs exactly once per session: never twice, and
\* once when the connection has closed and the handler has finished; after
\* it ran, a second close of the id would leave the map unchanged.
C8_CloseExactlyOnce ==
  \A t \in DOMAIN transports :
    /\ transports[t].closeRuns <= 1
    /\ (~transports[t].open /\ transports[t].pc # "connecting")
         => transports[t].closeRuns = 1
    /\ transports[t].closeRuns >= 1
         => MapDelete(sseTransports, transports[t].sessionId) = sseTransports

\* ---- C9 ------------------------------------------------------------------
\* C9: a request to /sse or /messages that the gate rejects is answered 401
\* or 403 and does nothing else: no transport is created, the map is neither
\* changed nor read, no message is forwarded and no REST call is made; and
\* only messages of requests that passed the gate reach a REST call.
C9_GateFirst ==
  /\ [](\A i \in restCalls : i \in DOMAIN reqs /\ reqs[i].gate = "next")
  /\ [][(Received /\ NewRec.gate # "next")
         => (/\ NewRec.status \in {401, 403}
             /\ NewRec.transport = 0
             /\ ~NewRec.lookedUp
             /\ NewRec.forwardedTo = 0
             /\ NewRec.pc = "done"
             /\ UNCHANGED <<sseTransports, transports, restCalls>>)]_vars

\* with a session open, a /sse request and a /messages request were rejected
C9_Witness ==
  /\ DOMAIN sseTransports # {}
  /\ \E i, j \in DOMAIN reqs :
       /\ reqs[i].path = "/sse" /\ reqs[i].status \in {401, 403}
       /\ reqs[j].path = "/messages" /\ reqs[j].status \in {401, 403}

\* ---- C10 -----------------------------------------------------------------
\* C10: with no API_KEY configured (unset or empty) the middleware calls
\* next() whatever the X-API-Key and Authorization headers are.
C10_OpenPassesAll ==
  (gate.verdict # "none" /\ ~Truthy(env, "API_KEY")) => gate.verdict = "next"

\* with no API_KEY, a request carrying both headers with keys has passed
C10_Witness ==
  /\ ~Truthy(env, "API_KEY")
  /\ gate.verdict = "next"
  /\ DOMAIN gate.headers = HeaderNames
  /\ gate.headers["x-api-key"] = WrongW
  /\ gate.headers["authorization"] = BearerPrefix \o WrongW

\* ---- helpers of the gate properties --------------------------------------
\* the middleware has run on a request while a secret is configured
Protected == gate.verdict # "none" /\ Truthy(env, "API_KEY")

\* the request carries header k with exactly the string v
Carries(k, v) == k \in DOMAIN gate.headers /\ gate.headers[k] = v

\* ---- C11 -----------------------------------------------------------------
\* C11 (as stated): with a secret configured a request passes iff its
\* candidate key equals the secret, and a request whose candidate differs
\* from the secret is answered 403.
C11_ExactMatch ==
  Protected =>
    /\ gate.verdict = "next" <=> providedKey(gate.headers) = {env["API_KEY"]}
    /\ (providedKey(gate.headers) # {}
          /\ providedKey(gate.headers) # {env["API_KEY"]})
         => gate.verdict = "403"

\* C11 (amended): with a secret configured a request passes iff its
\* candidate key equals the secret, and a request whose candidate is not
\* empty and differs from the secret is answered 403; the empty candidate
\* of 'Authorization: Bearer ' is answered 401.
C11_ExactMatchNonEmpty ==
  Protected =>
    /\ gate.verdict = "next" <=> providedKey(gate.headers) = {env["API_KEY"]}
    /\ (providedKey(gate.headers) \notin {{}, {EmptyStr}}
          /\ providedKey(gate.headers) # {env["API_KEY"]})
         => gate.verdict = "403"
    /\ providedKey(gate.headers) = {EmptyStr} => gate.verdict = "401"

\* a key of the secret's length that is not the secret was answered 403
C11_Witness ==
  /\ Protected
  /\ providedKey(gate.headers) = {WrongW}
  /\ Len(WrongW) = Len(env["API_KEY"])
  /\ gate.verdict = "403"

\* ---- C12 -----------------------------------------------------------------
\* C12 (as stated): with a secret configured, a request with no candidate
\* key is answered 401, never 403, and a request with a candidate key
\* (providedKey assigned) is never answered 401.
C12_MissingVsWrong ==
  Protected =>
    /\ providedKey(gate.headers) = {} => gate.verdict = "401"
    /\ providedKey(gate.headers) # {} => gate.verdict # "401"

\* C12 (amended): with a secret configured, a request with no candidate key
\* or with an empty one ('Authorization: Bearer ' with an empty token) is
\* answered 401, never 403, and a request with a non-empty candidate key is
\* never answered 401.
C12_MissingOrEmptyVsWrong ==
  Protected =>
    /\ providedKey(gate.headers) \in {{}, {EmptyStr}} => gate.verdict = "401"
    /\ providedKey(gate.headers) \notin {{}, {EmptyStr}}
         => gate.verdict # "401"

\* an empty X-API-Key with 'Authorization: Bearer ' was answered 401
C12_Witness ==
  /\ Protected
  /\ Carries("x-api-key", EmptyStr)
  /\ Carries("authorization", BearerPrefix)
  /\ gate.verdict = "401"

\* ---- C13 -----------------------------------------------------------------
\* C13: the candidate is the X-API-Key header if it has one; else the rest
\* of an Authorization header that starts with 'Bearer '; else the
\* Authorization header itself.  With secret S each of 'X-API-Key: S',
\* 'Authorization: Bearer S' and 'Authorization: S' alone passes, and a
\* request with a non-empty X-API-Key is judged on it alone.
C13_FirstMatchOrder ==
  Protected =>
    /\ Truthy(gate.headers, "x-api-key") =>
         (gate.verdict = "next" <=> gate.headers["x-api-key"] = env["API_KEY"])
    /\ (~Truthy(gate.headers, "x-api-key")
          /\ "authorization" \in DOMAIN gate.headers) =>
         (gate.verdict = "next" <=>
            gate.headers["authorization"]
              \in {env["API_KEY"], BearerPrefix \o env["API_KEY"]})
    /\ (DOMAIN gate.headers = {"x-api-key"}
          /\ Carries("x-api-key", env["API_KEY"])) => gate.verdict = "next"
    /\ (DOMAIN gate.headers = {"authorization"}
          /\ Carries("authorization", BearerPrefix \o env["API_KEY"]))
         => gate.verdict = "next"
    /\ (DOMAIN gate.headers = {"authorization"}
          /\ Carries("authorization", env["API_KEY"])) => gate.verdict = "next"
    /\ (Carries("x-api-key", WrongW)
          /\ Carries("authorization", BearerPrefix \o env["API_KEY"]))
         => gate.verdict = "403"

\* a wrong X-API-Key with 'Authorization: Bearer S' was answered 403
C13_Witness ==
  /\ Protected
  /\ Carries("x-api-key", WrongW)
  /\ Carries("authorization", BearerPrefix \o SecretS)
  /\ gate.verdict = "403"

\* ---- helpers of the client properties ------------------------------------
\* the operation got a response with a non-2xx status
NonOk ==
  /\ client.op \in {"request", "requestWithHeaders", "uploadMedia"}
  /\ client.pc = "done"
  /\ client.response.status # NoResponse
  /\ ~Ok(client.response.status)

\* the operation got a 2xx response whose body is JSON
Success ==
  /\ client.op \in {"request", "requestWithHeaders", "uploadMedia"}
  /\ client.pc = "done"
  /\ Ok(client.response.status)
  /\ client.response.body.kind # "text"

\* message, else code, else the raw text, by presence of the field
PresentFirst(body) ==
  IF body.kind = "object" /\ "message" \in DOMAIN body.obj
  THEN body.obj["message"]
  ELSE IF body.kind = "object" /\ "code" \in DOMAIN body.obj
  THEN body.obj["code"]
  ELSE body.raw

\* message, else code, else the raw text, by presence of a non-empty field
NonEmptyFirst(body) ==
  IF body.kind = "object" /\ Truthy(body.obj, "message")
  THEN body.obj["message"]
  ELSE IF body.kind = "object" /\ Truthy(body.obj, "code")
  THEN body.obj["code"]
  ELSE body.raw

\* ---- C14 -----------------------------------------------------------------
\* C14 (as stated): for a non-2xx response, request and requestWithHeaders
\* surface the body's message field if present, else its code field if
\* present, else the raw body text (also when the body is not JSON).
C14_MessagePriority ==
  (NonOk /\ client.op \in {"request", "requestWithHeaders"}) =>
    /\ client.result.kind = "thrown"
    /\ client.result.error
         = ApiError(client.response.status, PresentFirst(client.response.body))

\* C14 (amended): the same priority, where a field counts only if it is
\* present and not empty: an empty message falls through to code, an empty
\* code to the raw body text.
C14_NonEmptyMessagePriority ==
  (NonOk /\ client.op \in {"request", "requestWithHeaders"}) =>
    /\ client.result.kind = "thrown"
    /\ client.result.error
         = ApiError(client.response.status, NonEmptyFirst(client.response.body))
    /\ client.response.body.raw = <<"oops">> =>
         client.result.error
           = <<"WordPress API error (", ToString(client.response.status),
               "): ", "oops">>

\* a 400 whose body has only a code field surfaced the code, and no message
C14_Witness ==
  /\ NonOk /\ client.op = "request"
  /\ client.response.status = 400
  /\ DOMAIN client.response.body.obj = {"code"}
  /\ client.result.error = <<"WordPress API error (", "400", "): ">> \o CodeC

\* ---- C15 -----------------------------------------------------------------
\* C15: a non-2xx response to request, to requestWithHeaders and to
\* uploadMedia produces an error with the status and with the message
\* extracted by the same message -> code -> raw body priority.
C15_UniformNormalization ==
  NonOk =>
    /\ client.result.kind = "thrown"
    /\ client.result.error
         = ApiError(client.response.status, NonEmptyFirst(client.response.body))

\* ---- C16 -----------------------------------------------------------------
\* C16: request, requestWithHeaders and uploadMedia never return a value
\* for a non-2xx status: they raise, after having read the response body.
C16_NonOkAlwaysRaised ==
  /\ NonOk => (client.result.kind = "thrown" /\ client.result.bodyRead)
  /\ (client.op \in {"request", "requestWithHeaders", "uploadMedia"}
        /\ client.result.kind = "returned")
       => Ok(client.response.status)

\* a 500 to an upload was raised after its body was read
C16_Witness ==
  /\ NonOk /\ client.op = "uploadMedia"
  /\ client.response.status = 500
  /\ client.result.kind = "thrown" /\ client.result.bodyRead

\* ---- C17 -----------------------------------------------------------------
\* C17: on a successful list response total and totalPages are the integers
\* of x-wp-total and x-wp-totalpages when these hold decimal digits (42 and
\* 3 give total 42, totalPages 3), and 0 when the header is missing; the
\* call returns.
C17_TotalsFromHeaders ==
  (Success /\ client.op = "requestWithHeaders") =>
    /\ client.result.kind = "returned"
    /\ \A k \in TotalHeaderNames :
         LET h == client.response.headers
             n == IF k = "x-wp-total" THEN client.result.totals.total
                  ELSE client.result.totals.totalPages
         IN /\ k \notin DOMAIN h => n = Number(0)
            /\ (k \in DOMAIN h /\ h[k] # EmptyStr /\ DigitsPrefix(h[k]) = h[k])
                 => n = Number(DecimalValue(h[k]))
            /\ (k \in DOMAIN h /\ h[k] = <<"4", "2">>) => n = Number(42)
            /\ (k \in DOMAIN h /\ h[k] = <<"3">>) => n = Number(3)

\* headers 42 and 3 gave total 42 and totalPages 3
C17_Witness ==
  /\ Success /\ client.op = "requestWithHeaders"
  /\ DOMAIN client.response.headers = TotalHeaderNames
  /\ client.response.headers["x-wp-total"] = <<"4", "2">>
  /\ client.response.headers["x-wp-totalpages"] = <<"3">>
  /\ client.result.totals = [total |-> Number(42), totalPages |-> Number(3)]

\* ---- C18 -----------------------------------------------------------------
\* C18: a non-numeric x-wp-total or x-wp-totalpages resolves to 0 and does
\* not raise: for the value 'abc' the returned total is 0.
C18_MalformedIsZero ==
  (Success /\ client.op = "requestWithHeaders") =>
    /\ client.result.kind = "returned"
    /\ ("x-wp-total" \in DOMAIN client.response.headers
          /\ client.response.headers["x-wp-total"] = <<"a", "b", "c">>)
         => client.result.totals.total = Number(0)
    /\ ("x-wp-totalpages" \in DOMAIN client.response.headers
          /\ client.response.headers["x-wp-totalpages"] = <<"a", "b", "c">>)
         => client.result.totals.totalPages = Number(0)

RECURSIVE SplitOn(_, _)
SplitOn(str, c) ==
  IF ~IsIn(str, c) THEN <<str>>
  ELSE <<SubSeq(str, 1, IndexOf(str, c) - 1)>>
         \o SplitOn(SubSeq(str, IndexOf(str, c) + 1, Len(str)), c)

\* the names of the name=value pairs of a query string
QueryNames(query) ==
  IF query = EmptyStr THEN {}
  ELSE LET pairs == SplitOn(Tail(query), "&")
       IN {Head(SplitOn(pairs[i], "=")) : i \in DOMAIN pairs}

\* the keys of params whose value is neither undefined nor null
DefinedKeys(params) ==
  {params[i].key : i \in {j \in DOMAIN params :
                            params[j].value \notin {Undefined, Null}}}

\* C20: the string buildQueryString returns has a name=value pair for
\* exactly the keys with a value (none for an undefined one, not even an
\* empty pair); it is "" when no key has a value and begins with '?'
\* otherwise.
C20_QueryStringShape ==
  client.op = "buildQueryString" =>
    /\ QueryNames(client.query) = DefinedKeys(client.params)
    /\ \A i \in DOMAIN client.params :
         client.params[i].value = Undefined
           => client.params[i].key \notin QueryNames(client.query)
    /\ DefinedKeys(client.params) = {} <=> client.query = EmptyStr
    /\ DefinedKeys(client.params) # {} =>
         (Head(client.query) = "?" /\ Len(client.query) >= 3)

\* { k: undefined, p: 20 } gave '?p=20'
C20_Witness ==
  /\ client.op = "buildQueryString"
  /\ client.params = <<[key |-> <<"k">>, value |-> Undefined],
                       [key |-> <<"p">>, value |-> NumberValue(20)]>>
  /\ client.query = <<"?", "p", "=", "2", "0">>

\* ---- C21 -----------------------------------------------------------------
\* the name=value pairs of a query string, as written in it
QueryPairs(query) ==
  IF query = EmptyStr THEN <<>> ELSE SplitOn(Tail(query), "&")

\* C21: an array value [a,b,c] under key k appears in the returned string
\* as exactly one pair, k=a,b,c: the percent-encoded elements in their
\* order, duplicates kept, separated by the comma character itself.
C21_ArrayCommaSeparated ==
  client.op = "buildQueryString" =>
    \A i \in DOMAIN client.params :
      LET k == client.params[i].key
          v == client.params[i].value
          pairs == QueryPairs(client.query)
      IN v.t = "array" =>
           /\ Cardinality({j \in DOMAIN pairs :
                             Head(SplitOn(pairs[j], "=")) = UrlEncode(k)}) = 1
           /\ \E j \in DOMAIN pairs :
                pairs[j] = UrlEncode(k) \o <<"=">>
                             \o Join([e \in DOMAIN v.a |-> UrlEncode(v.a[e])],
                                     <<",">>)

\* ---- C22 -----------------------------------------------------------------
\* C22: a finished bulk run over N ids issued N updates, one per id, also
\* after failed ones; its result has N entries, the i-th for the i-th id,
\* with success false exactly where the i-th update failed; Successful +
\* Failed = N.
C22_OneResultPerId ==
  bulk.pc = "done" =>
    /\ Len(bulk.calls) = Len(bulk.ids)
    /\ Len(bulk.results) = Len(bulk.ids)
    /\ \A i \in DOMAIN bulk.ids :
         /\ bulk.calls[i] = bulk.ids[i]
         /\ bulk.results[i].id = bulk.ids[i]
         /\ bulk.results[i].success = bulk.outcomes[i].ok
    /\ bulk.successful + bulk.failed = Len(bulk.ids)
    /\ bulk.failed
         = Cardinality({i \in DOMAIN bulk.ids : ~bulk.outcomes[i].ok})

\* three ids, the second update failed and the third was still made
C22_Witness ==
  /\ bulk.pc = "done"
  /\ Len(bulk.ids) = 3
  /\ bulk.outcomes[1].ok /\ ~bulk.outcomes[2].ok /\ bulk.outcomes[3].ok
  /\ Len(bulk.calls) = 3
  /\ bulk.successful = 2 /\ bulk.failed = 1

\* ---- C28 -----------------------------------------------------------------
\* C28: the updates are issued in input order, one at a time: the update of
\* position i+1 is issued only once the update of position i has resolved
\* or rejected, so at most one is pending; the results hold the ids in
\* input order, one entry per occurrence of an id.
C28_SequentialInOrder ==
  /\ Len(bulk.calls) <= Len(bulk.ids)
  /\ \A i \in DOMAIN bulk.calls : bulk.calls[i] = bulk.ids[i]
  /\ Len(bulk.calls)
       = Len(bulk.outcomes) + (IF bulk.pc = "running" THEN 1 ELSE 0)
  /\ Len(bulk.results) = Len(bulk.outcomes)
  /\ \A i \in DOMAIN bulk.results : bulk.results[i].id = bulk.ids[i]

\* the same id twice: the second update is pending after the first failed
C28_Witness ==
  /\ bulk.pc = "running"
  /\ bulk.ids = <<1, 1, 2>>
  /\ bulk.calls = <<1, 1>>
  /\ Len(bulk.results) = 1 /\ ~bulk.results[1].success

\* ---- C23 -----------------------------------------------------------------
\* C23: an operation of the client calls fetch exactly once, whether the
\* call is pending, got a 2xx or a non-2xx response, or was rejected by the
\* transport; a failed attempt ends the operation with a raised error (the
\* transport's own error, or the API error with the status).
C23_SingleAttempt ==
  client.op \in {"request", "requestWithHeaders", "uploadMedia"} =>
    /\ Len(client.sent) = 1
    /\ (client.pc = "done" /\ client.response.status = NoResponse) =>
         /\ client.result.kind = "thrown"
         /\ client.result.error \in TransportErrors
    /\ NonOk =>
         /\ client.result.kind = "thrown"
         /\ SubSeq(client.result.error, 1, 3)
              = <<"WordPress API error (", ToString(client.response.status),
                  "): ">>

\* a request whose fetch was rejected ended with that error after one call
C23_Witness ==
  /\ client.op = "request" /\ client.pc = "done"
  /\ client.response.status = NoResponse
  /\ client.result.kind = "thrown"
  /\ client.result.error = <<"fetch failed">>
  /\ Len(client.sent) = 1

\* ---- C24 -----------------------------------------------------------------
\* an update tool was called with every optional field absent or undefined
NoFieldCall ==
  /\ tool.name \in UpdateTools
  /\ \A k \in DOMAIN tool.args \ IdFields(tool.name) :
       tool.args[k] = Undefined

\* C24 (as stated): a call of update_post, update_page, update_media or
\* update_site_settings with no field to update returns the validation
\* message and calls no client method.
C24_NoFieldsIsValidationFailure ==
  NoFieldCall =>
    /\ tool.pc = "done"
    /\ tool.calls = <<>>
    /\ tool.outcome = "returned"
    /\ tool.text = NoFieldsText(tool.name)

\* C24 (amended): such a call calls no client method; it returns the
\* validation message when getClient() returned a client, and fails with
\* the error of createWordPressClient when getClient() threw, which
\* happens before the fields are looked at.
C24_NoFieldsNoRequest ==
  NoFieldCall =>
    /\ tool.pc = "done"
    /\ tool.calls = <<>>
    /\ wpClient.returned # NullClient =>
         /\ tool.outcome = "returned"
         /\ tool.text = NoFieldsText(tool.name)
         /\ tool.text \in {"Error: No fields to update were provided.",
                           "Error: No settings to update were provided."}
    /\ wpClient.returned = NullClient =>
         /\ tool.outcome = "thrown"
         /\ tool.text = createWordPressClient(wpClient.env).error

\* update_post with only an undefined title returned the validation
\* message without a call
C24_Witness ==
  /\ tool.name = "update_post" /\ tool.pc = "done"
  /\ DOMAIN tool.args = {"post_id", "title"}
  /\ tool.args["title"] = Undefined
  /\ tool.calls = <<>>
  /\ tool.text = "Error: No fields to update were provided."

\* ---- C30 -----------------------------------------------------------------
\* a tool handler is called (and calls getClient())
ToolCallStep == tool.pc # "awaiting" /\ wpClient' # wpClient

\* C30: over any sequence of tool calls at most one WordPressClient is
\* constructed, the cache holds it from then on, and every later call gets
\* that instance without a new construction; a construction that fails for
\* a missing environment variable leaves the cache empty, and the next
\* call calls createWordPressClient again.
C30_Singleton ==
  /\ [](/\ wpClient.constructed <= 1
        /\ wpClient.cached = wpClient.constructed
        /\ \A i \in DOMAIN tool.calls : tool.calls[i].client = 1)
  /\ [][ToolCallStep =>
          /\ wpClient'.gets = wpClient.gets + 1
          /\ wpClient.cached # NullClient =>
               /\ wpClient'.returned = wpClient.cached
               /\ wpClient'.cached = wpClient.cached
               /\ wpClient'.constructed = wpClient.constructed
               /\ wpClient'.attempts = wpClient.attempts
          /\ wpClient.cached = NullClient =>
               /\ wpClient'.attempts = wpClient.attempts + 1
               /\ (\E k \in WpEnvNames : ~Truthy(wpClient.env, k)) =>
                    /\ wpClient'.cached = NullClient
                    /\ wpClient'.returned = NullClient
                    /\ wpClient'.attempts = wpClient'.gets
               /\ (\A k \in WpEnvNames : Truthy(wpClient.env, k)) =>
                    /\ wpClient'.cached = 1
                    /\ wpClient'.returned = 1]_vars

\* three tool calls, one construction: the last two reused the instance
C30_Witness ==
  /\ wpClient.gets = 3
  /\ wpClient.constructed = 1 /\ wpClient.attempts = 1
  /\ wpClient.cached = 1 /\ wpClient.returned = 1

\* ---- C25 -----------------------------------------------------------------
\* C25: deletePost, deletePage and deleteComment send '?force=true' when
\* called with force true and no query when force is false or omitted;
\* deleteMedia always sends 'force=': true when omitted or true, false when
\* called with false.
C25_DeleteDefaults ==
  (client.op = "request" /\ client.via \in DeleteMethods) =>
    LET forceTrue == <<"?", "f", "o", "r", "c", "e", "=", "t", "r", "u", "e">>
        forceFalse ==
          <<"?", "f", "o", "r", "c", "e", "=", "f", "a", "l", "s", "e">>
    IN IF client.via = "deleteMedia"
       THEN client.query = (IF client.force = {FALSE} THEN forceFalse
                            ELSE forceTrue)
       ELSE client.query = (IF client.force = {TRUE} THEN forceTrue
                            ELSE EmptyStr)

\* deleteMedia called without force sent force=true
C25_Witness ==
  /\ client.op = "request" /\ client.via = "deleteMedia"
  /\ client.force = {}
  /\ client.query = <<"?", "f", "o", "r", "c", "e", "=", "t", "r", "u", "e">>

\* ---- C26 -----------------------------------------------------------------
\* C26: in every list result the client returns, total and totalPages are
\* integers and are not negative, whatever the two headers hold.
C26_TotalsNonNegative ==
  (client.op = "requestWithHeaders" /\ client.pc = "done"
     /\ client.result.kind = "returned") =>
    /\ ~client.result.totals.total.nan
    /\ client.result.totals.total.val >= 0
    /\ ~client.result.totals.totalPages.nan
    /\ client.result.totals.totalPages.val >= 0

\* ---- C27 -----------------------------------------------------------------
\* C27: once server.connect(transport) has failed for a GET /sse, the
\* request is answered 500 'SSE connection failed' (or the answer already
\* sent stands) and sseTransports has no entry for the transport's id.
C27_FailedConnectLeavesNoEntry ==
  \A t \in DOMAIN transports :
    transports[t].pc = "failed" =>
      /\ reqs[transports[t].req].pc = "done"
      /\ reqs[transports[t].req].status # 0 =>
           /\ reqs[transports[t].req].status = 500
           /\ reqs[transports[t].req].error = "SSE connection failed"
      /\ ~MapHas(sseTransports, transports[t].sessionId)

\* ---- C29 -----------------------------------------------------------------
\* C29: a POST /messages that passed the gate with no sessionId, or an
\* empty one, is answered 400 'Missing sessionId parameter' with no lookup
\* in sseTransports and no forwarding; an id looked up and not found is a
\* non-empty one and is answered 404 'Session not found'.
C29_MissingSessionIdIs400 ==
  \A i \in DOMAIN reqs :
    (reqs[i].path = "/messages" /\ reqs[i].gate = "next") =>
      /\ reqs[i].sid = EmptyStr =>
           /\ reqs[i].pc = "done"
           /\ reqs[i].status = 400
           /\ reqs[i].error = "Missing sessionId parameter"
           /\ ~reqs[i].lookedUp
           /\ reqs[i].forwardedTo = 0
      /\ (reqs[i].lookedUp /\ reqs[i].forwardedTo = 0) =>
           /\ reqs[i].sid # EmptyStr
           /\ reqs[i].status = 404
           /\ reqs[i].error = "Session not found"
      /\ reqs[i].error = "Missing sessionId parameter"
           => reqs[i].sid = EmptyStr

\* a request with ?sessionId= (empty) and one without the parameter were
\* both answered 400
C29_Witness ==
  \E i, j \in DOMAIN reqs :
    /\ reqs[i].path = "/messages" /\ reqs[j].path = "/messages"
    /\ reqs[i].gate = "next" /\ reqs[j].gate = "next"
    /\ reqs[i].sidGiven /\ ~reqs[j].sidGiven
    /\ reqs[i].sid = EmptyStr
    /\ reqs[i].status = 400 /\ reqs[j].status = 400

====
